---- MODULE Spec2Model ----
(***************************************************************************)
(* A model of server/ai.py: the instruction-to-schema inference engine.    *)
(*                                                                         *)
(* Free text (the instruction, field names, entity keys, titles, enum      *)
(* values) is a sequence of one-character strings, so that the regular     *)
(* expressions, strip, split, lower and capitalize of the source are       *)
(* computed character by character.  Values of closed vocabularies (the    *)
(* mode, a JSON-schema type name, a format) are TLA+ strings.  A Python    *)
(* dict is a function whose DOMAIN is the set of keys that are present.    *)
(***************************************************************************)
EXTENDS Naturals, Sequences, FiniteSets, TLC

\* ------------------------------------------------------------------------
\* Characters
\* ------------------------------------------------------------------------
UpperSeq == <<"A", "B", "C", "D", "E", "F", "G", "H", "I", "J", "K", "L", "M", "N", "O", "P", "Q", "R", "S", "T", "U", "V", "W", "X", "Y", "Z">>
LowerSeq == <<"a", "b", "c", "d", "e", "f", "g", "h", "i", "j", "k", "l", "m", "n", "o", "p", "q", "r", "s", "t", "u", "v", "w", "x", "y", "z">>
DigitSeq == <<"0", "1", "2", "3", "4", "5", "6", "7", "8", "9">>

Range(s) == {s[i] : i \in DOMAIN s}

Upper == Range(UpperSeq)
Lower == Range(LowerSeq)
\* [A-Za-z]
AsciiLetter == Upper \cup Lower
\* \w
Word == AsciiLetter \cup Range(DigitSeq) \cup {"_"}
\* \s
Space == {" ", "\n", "\t"}

\* str.lower() / re.I folding of one character
ToLower(c) == IF c \in Upper THEN LowerSeq[CHOOSE i \in DOMAIN UpperSeq : UpperSeq[i] = c] ELSE c
ToUpper(c) == IF c \in Lower THEN UpperSeq[CHOOSE i \in DOMAIN LowerSeq : LowerSeq[i] = c] ELSE c
LowerStr(s) == [i \in DOMAIN s |-> ToLower(s[i])]

\* Python's None where a text is expected (Optional[str]): a value that is no text.
PyNone == <<"None">>
\* A text that is falsy in Python: None or "".
Falsy(s) == s = PyNone \/ s = <<>>

\* ------------------------------------------------------------------------
\* Regular-expression primitives (positions are 1-based; a match [i, j) ends
\* before j)
\* ------------------------------------------------------------------------
\* t[a .. b-1]
Sub(t, a, b) == SubSeq(t, a, b - 1)
\* End of the greedy run S* started at i.
RunEnd(t, i, S) == CHOOSE j \in i..(Len(t) + 1) : (\A k \in i..(j - 1) : t[k] \in S) /\ (j = Len(t) + 1 \/ t[j] \notin S)
\* End of the greedy run [^S]* started at i.
RunEndNot(t, i, S) == CHOOSE j \in i..(Len(t) + 1) : (\A k \in i..(j - 1) : t[k] \notin S) /\ (j = Len(t) + 1 \/ t[j] \in S)
\* The literal lit at i, letters compared case-insensitively (re.I); lit is lower case.
LitAtCI(t, i, lit) == i + Len(lit) - 1 <= Len(t) /\ \A k \in DOMAIN lit : ToLower(t[i + k - 1]) = lit[k]
\* The literal lit at i, compared exactly.
LitAt(t, i, lit) == i + Len(lit) - 1 <= Len(t) /\ \A k \in DOMAIN lit : t[i + k - 1] = lit[k]
\* One character of class S at i.
CharAt(t, i, S) == i <= Len(t) /\ t[i] \in S
\* \b at i
BoundaryAt(t, i) == CharAt(t, i, Word) # (i > 1 /\ CharAt(t, i - 1, Word))
\* lit in s
Contains(s, lit) == \E i \in 1..Len(s) : LitAt(s, i, lit)

NoMatch == [ok |-> FALSE]

\* v.strip()
Strip(s) == LET a == RunEnd(s, 1, Space) IN IF a > Len(s) THEN <<>> ELSE Sub(s, a, 1 + CHOOSE b \in a..Len(s) : s[b] \notin Space /\ \A k \in (b + 1)..Len(s) : s[k] \in Space)

\* [v.strip() for v in re.split(r"[,\|]", raw) if v.strip()]
RECURSIVE SplitValues(_)
SplitValues(raw) == LET j == RunEndNot(raw, 1, {",", "|"})
                        v == Strip(Sub(raw, 1, j))
                        rest == IF j > Len(raw) THEN <<>> ELSE SplitValues(SubSeq(raw, j + 1, Len(raw)))
                    IN IF v # <<>> THEN <<v>> \o rest ELSE rest

\* ------------------------------------------------------------------------
\* dict helpers
\* ------------------------------------------------------------------------
EmptyDict == <<>>
Has(d, k) == k \in DOMAIN d
\* d.get(k, dflt)
Get(d, k, dflt) == IF k \in DOMAIN d THEN d[k] ELSE dflt
\* d[k] = v
Put(d, k, v) == (k :> v) @@ d
\* d.pop(k, None)
Drop(d, k) == [x \in DOMAIN d \ {k} |-> d[x]]
\* d.update(e)
Update(d, e) == e @@ d

\* ------------------------------------------------------------------------
\* _rule_based_from_text: the extraction passes
\* ------------------------------------------------------------------------
kwEnum == <<"e", "n", "u", "m", ":">>
kwFK == <<"f", "k", ":">>
kwEmail == <<"e", "m", "a", "i", "l">>
sfxAt == <<"_", "a", "t">>
wEnum == <<"e", "n", "u", "m">>
nEntity == <<"e", "n", "t", "i", "t", "y">>
nId == <<"i", "d">>
RefHead == <<"#", "/", "d", "e", "f", "i", "n", "i", "t", "i", "o", "n", "s", "/">>
RefMid == <<"/", "p", "r", "o", "p", "e", "r", "t", "i", "e", "s", "/">>
\* (string|number|integer|boolean), in the order of the alternation
TypedNames == <<"string", "number", "integer", "boolean">>
TypedLits == <<
    <<"s", "t", "r", "i", "n", "g">>,
    <<"n", "u", "m", "b", "e", "r">>,
    <<"i", "n", "t", "e", "g", "e", "r">>,
    <<"b", "o", "o", "l", "e", "a", "n">> >>

\* (\w+)\s+enum:\s*([^\n;]+) with re.I, tried at i.  \s* is greedy and gives
\* characters back until [^\n;]+ finds a first character.
EnumMatchAt(t, i) ==
    LET a == RunEnd(t, i, Word)
        b == RunEnd(t, a, Space)
        c == b + Len(kwEnum)
        d == RunEnd(t, c, Space)
        starts == {g \in c..d : g <= Len(t) /\ t[g] \notin {"\n", ";"}}
        g == CHOOSE x \in starts : \A y \in starts : y <= x
        e == RunEndNot(t, g, {"\n", ";"})
    IN IF a > i /\ b > a /\ LitAtCI(t, b, kwEnum) /\ starts # {}
       THEN [ok |-> TRUE, end |-> e, field |-> Sub(t, i, a), raw |-> Sub(t, g, e)]
       ELSE NoMatch

\* props[field] = {"type": "string", "enum": values}, if values
EnumStep(props, m) ==
    LET values == SplitValues(m.raw)
    IN IF values # <<>> THEN Put(props, m.field, [type |-> "string", enum |-> values]) ELSE props


\* (\w+)\s*:\s*([A-Za-z][\w\s,\|\-]*), case-sensitive, tried at i.
ListMatchAt(t, i) ==
    LET a == RunEnd(t, i, Word)
        b == RunEnd(t, a, Space)
        c == RunEnd(t, b + 1, Space)
        e == RunEnd(t, c + 1, Word \cup Space \cup {",", "|", "-"})
    IN IF a > i /\ CharAt(t, b, {":"}) /\ CharAt(t, c, AsciiLetter)
       THEN [ok |-> TRUE, end |-> e, field |-> Sub(t, i, a), raw |-> Sub(t, c, e)]
       ELSE NoMatch

ListStep(props, m) ==
    LET candidates == SplitValues(m.raw)
    IN IF Contains(LowerStr(m.raw), wEnum) THEN props
       ELSE IF Len(candidates) >= 2 /\ ~Has(props, m.field)
            THEN Put(props, m.field, [type |-> "array", items |-> [type |-> "string", enum |-> candidates]])
            ELSE props


\* def upsert(f, spec): if f not in props: props[f] = spec
upsert(props, f, spec) == IF Has(props, f) THEN props ELSE Put(props, f, spec)

\* re.search(r"\bemail\b", t, re.I)
EmailFound(t) == \E i \in 1..Len(t) : LitAtCI(t, i, kwEmail) /\ BoundaryAt(t, i) /\ BoundaryAt(t, i + Len(kwEmail))

\* \b\w+_at\b, tried at i: \w+ takes the whole word and gives characters back
\* until _at\b follows, which only the end of the word allows.
AtMatchAt(t, i) ==
    LET e == RunEnd(t, i, Word)
    IN IF BoundaryAt(t, i) /\ CharAt(t, i, Word) /\ e - i >= Len(sfxAt) + 1 /\ LitAt(t, e - Len(sfxAt), sfxAt)
       THEN [ok |-> TRUE, end |-> e, field |-> Sub(t, i, e)]
       ELSE NoMatch

AtStep(props, m) == upsert(props, m.field, [type |-> "string", format |-> "date-time"])

\* The character class [->→] of the FK pattern: one character.
ArrowClass == {"-", ">", "→"}

\* FK:\s*(\w+)\s*[->→]\s*(\w+)\.(\w+) with re.I, tried at i.
FKMatchAt(t, i) ==
    LET a == i + Len(kwFK)
        b == RunEnd(t, a, Space)
        c == RunEnd(t, b, Word)
        d == RunEnd(t, c, Space)
        e == RunEnd(t, d + 1, Space)
        f == RunEnd(t, e, Word)
        g == RunEnd(t, f + 1, Word)
    IN IF LitAtCI(t, i, kwFK) /\ c > b /\ CharAt(t, d, ArrowClass) /\ f > e /\ CharAt(t, f, {"."}) /\ g > f + 1
       THEN [ok |-> TRUE, end |-> g, field |-> Sub(t, b, c), table |-> Sub(t, e, f), col |-> Sub(t, f + 1, g)]
       ELSE NoMatch

\* table[:-1] if table.endswith("s") else table
StripS(w) == IF Len(w) >= 1 /\ w[Len(w)] = "s" THEN Sub(w, 1, Len(w)) ELSE w

\* The FK property spec; ref is the "$ref" key.
FKSpec(m) ==
    [type |-> "string", format |-> "uuid", refTable |-> m.table, refColumn |-> m.col,
     ref |-> RefHead \o m.table \o RefMid \o m.col, relationshipName |-> StripS(m.table)]

\* props[field] = {...}
FKStep(props, m) == Put(props, m.field, FKSpec(m))


\* \b(\w+)\s*\((string|number|integer|boolean)\) with re.I, tried at i.
TypedMatchAt(t, i) ==
    LET a == RunEnd(t, i, Word)
        b == RunEnd(t, a, Space)
        alts == {k \in DOMAIN TypedLits : LitAtCI(t, b + 1, TypedLits[k])}
        k == CHOOSE x \in alts : \A y \in alts : x <= y
        e == b + 1 + Len(TypedLits[k])
    IN IF BoundaryAt(t, i) /\ a > i /\ CharAt(t, b, {"("}) /\ alts # {} /\ CharAt(t, e, {")"})
       THEN [ok |-> TRUE, end |-> e + 1, field |-> Sub(t, i, a), typ |-> TypedNames[k]]
       ELSE NoMatch

\* props.setdefault(field, {"type": typ})
TypedStep(props, m) == IF Has(props, m.field) THEN props ELSE Put(props, m.field, [type |-> m.typ])


\* The pattern named pat, tried at i.
MatchAt(pat, t, i) ==
    CASE pat = "enum" -> EnumMatchAt(t, i)
      [] pat = "list" -> ListMatchAt(t, i)
      [] pat = "at" -> AtMatchAt(t, i)
      [] pat = "fk" -> FKMatchAt(t, i)
      [] pat = "typed" -> TypedMatchAt(t, i)

\* re.finditer / re.findall: the matches of a pattern from pos on, leftmost first,
\* each search resuming where the previous match ended (no pattern here matches
\* the empty text).
RECURSIVE FindIter(_, _, _)
FindIter(pat, t, pos) ==
    LET hits == {p \in pos..Len(t) : MatchAt(pat, t, p).ok}
        first == CHOOSE p \in hits : \A q \in hits : p <= q
        m == MatchAt(pat, t, first)
    IN IF hits = {} THEN <<>> ELSE <<m>> \o FindIter(pat, t, m.end)

\* The body of the for loop over the matches of the pattern named pat.
Step(pat, props, m) ==
    CASE pat = "enum" -> EnumStep(props, m)
      [] pat = "list" -> ListStep(props, m)
      [] pat = "at" -> AtStep(props, m)
      [] pat = "fk" -> FKStep(props, m)
      [] pat = "typed" -> TypedStep(props, m)

\* The for loop over the matches ms[k..], in order.
RECURSIVE ForEachMatch(_, _, _, _)
ForEachMatch(pat, ms, k, props) == IF k > Len(ms) THEN props ELSE ForEachMatch(pat, ms, k + 1, Step(pat, props, ms[k]))

EnumPass(t, props) == ForEachMatch("enum", FindIter("enum", t, 1), 1, props)

ListPass(t, props) == ForEachMatch("list", FindIter("list", t, 1), 1, props)

\* the email hint, then the _at names
FormatPass(t, props) ==
    LET p1 == IF EmailFound(t) THEN upsert(props, kwEmail, [type |-> "string", format |-> "email"]) ELSE props
    IN ForEachMatch("at", FindIter("at", t, 1), 1, p1)

FKPass(t, props) == ForEachMatch("fk", FindIter("fk", t, 1), 1, props)

TypedPass(t, props) == ForEachMatch("typed", FindIter("typed", t, 1), 1, props)

\* s.capitalize()
Capitalize(s) == [i \in DOMAIN s |-> IF i = 1 THEN ToUpper(s[i]) ELSE ToLower(s[i])]

\* key = (target or "entity").strip() if mode == "extend_entity" else "entity"
ResolveKey(mode, target) == IF mode = "extend_entity" THEN Strip(IF Falsy(target) THEN nEntity ELSE target) ELSE nEntity

\* title = key[:-1].capitalize() if key.endswith("s") else key.capitalize()
TitleOf(key) == Capitalize(StripS(key))

\* props once the identity is injected and the first k of the five passes have
\* run, in the order of the source: enum, list, format hints, FK, typed literal.
RECURSIVE PropsAfterPass(_, _, _)
PropsAfterPass(text, mode, k) ==
    LET t == Strip(text)
        before == PropsAfterPass(text, mode, k - 1)
    IN CASE k = 0 -> IF mode = "new_definition" THEN Put(EmptyDict, nId, [type |-> "string", format |-> "uuid"]) ELSE EmptyDict
         [] k = 1 -> EnumPass(t, before)
         [] k = 2 -> ListPass(t, before)
         [] k = 3 -> FormatPass(t, before)
         [] k = 4 -> FKPass(t, before)
         [] k = 5 -> TypedPass(t, before)

\* props when all five passes have run
ExtractProps(text, mode) == PropsAfterPass(text, mode, 5)

\* _rule_based_from_text(text, mode, target)
RuleBasedFromText(text, mode, target) ==
    LET key == ResolveKey(mode, target)
    IN [mode |-> mode,
        definition_key |-> key,
        definition |-> [type |-> "object",
                        title |-> TitleOf(key),
                        properties |-> ExtractProps(text, mode),
                        required |-> IF mode = "new_definition" THEN <<nId>> ELSE <<>>,
                        primaryKey |-> IF mode = "new_definition" THEN <<nId>> ELSE <<>>,
                        additionalProperties |-> FALSE]]

\* ------------------------------------------------------------------------
\* Python values that are no dict
\* ------------------------------------------------------------------------
\* A value that is not a dict (a string, a list, a number) where one is expected.
NonDict == [pyvalue |-> "nondict"]
\* None where a dict is expected.
None == [pyvalue |-> "None"]
\* isinstance(v, dict)
IsDict(v) == "pyvalue" \notin DOMAIN v
\* spec.get("type") of a spec without the key, or with the value null.
NoType == "py:None"

\* ------------------------------------------------------------------------
\* _coerce_draft07
\* ------------------------------------------------------------------------
\* ("string","number","integer","boolean","array","object", None)
AllowedTypes == {"string", "number", "integer", "boolean", "array", "object", NoType}
\* ("string","number","integer","boolean","object")
AllowedItemTypes == {"string", "number", "integer", "boolean", "object"}

\* items = spec.get("items") or {}; not a dict -> {}; items.type forced to string
CoerceItems(spec) ==
    LET got == Get(spec, "items", EmptyDict)
        items == IF IsDict(got) THEN got ELSE EmptyDict
    IN IF Get(items, "type", NoType) \notin AllowedItemTypes THEN Put(items, "type", "string") ELSE items

\* CoerceSpec with the type checked against the item primitives: "array" is
\* taken for an unknown type and forced to string.
CoerceSpecArrayRejected(spec) ==
    IF ~IsDict(spec) THEN spec
    ELSE LET t0 == Get(spec, "type", NoType)
             bad == t0 \notin AllowedItemTypes \cup {NoType}
             s1 == IF bad THEN Put(spec, "type", "string") ELSE spec
             t == IF bad THEN "string" ELSE t0
             s2 == IF t = "array" THEN Put(s1, "items", CoerceItems(s1)) ELSE s1
         IN IF Has(s2, "uniqueItems") /\ Get(s2, "type", NoType) # "array" THEN Drop(s2, "uniqueItems") ELSE s2

\* CoerceSpec with uniqueItems stripped by the type read before the coercion,
\* when that is a primitive other than array: a stale read.
CoerceSpecStaleType(spec) ==
    IF ~IsDict(spec) THEN spec
    ELSE LET t0 == Get(spec, "type", NoType)
             bad == t0 \notin AllowedTypes
             s1 == IF bad THEN Put(spec, "type", "string") ELSE spec
             t == IF bad THEN "string" ELSE t0
             s2 == IF t = "array" THEN Put(s1, "items", CoerceItems(s1)) ELSE s1
         IN IF Has(s2, "uniqueItems") /\ t0 \in AllowedItemTypes THEN Drop(s2, "uniqueItems") ELSE s2

\* The body of the loop over d["properties"].items().
CoerceSpec(spec) ==
    IF ~IsDict(spec) THEN spec
    ELSE LET t0 == Get(spec, "type", NoType)
             bad == t0 \notin AllowedTypes
             s1 == IF bad THEN Put(spec, "type", "string") ELSE spec
             t == IF bad THEN "string" ELSE t0
             s2 == IF t = "array" THEN Put(s1, "items", CoerceItems(s1)) ELSE s1
         IN IF Has(s2, "uniqueItems") /\ Get(s2, "type", NoType) # "array" THEN Drop(s2, "uniqueItems") ELSE s2

\* d.setdefault(k, v)
SetDefault(d, k, v) == IF Has(d, k) THEN d ELSE Put(d, k, v)

\* _coerce_draft07(defn), for a defn that is a dict or None and whose
\* "properties" is a dict or absent (on any other the source raises).
CoerceDraft07(defn) ==
    LET d0 == IF IsDict(defn) THEN defn ELSE EmptyDict
        d1 == SetDefault(d0, "type", "object")
        d2 == SetDefault(d1, "properties", EmptyDict)
        d3 == SetDefault(d2, "required", <<>>)
        d4 == SetDefault(d3, "primaryKey", <<>>)
        d5 == SetDefault(d4, "additionalProperties", FALSE)
    IN Put(d5, "properties", [f \in DOMAIN d5.properties |-> CoerceSpec(d5.properties[f])])

\* ------------------------------------------------------------------------
\* _merge_extend
\* ------------------------------------------------------------------------
NotFalsy(x) == ~Falsy(x)

\* list(dict.fromkeys([x for x in a if x]))
_uniq(a) ==
    LET kept == SelectSeq(a, NotFalsy)
        firsts == {i \in DOMAIN kept : \A j \in 1..(i - 1) : kept[j] # kept[i]}
    IN [k \in 1..Cardinality(firsts) |-> kept[CHOOSE i \in firsts : Cardinality({j \in firsts : j < i}) = k - 1]]

\* MergedProperties with the update the wrong way round: existing wins.
MergedPropertiesExistingWins(existing, suggestion) == Update(Get(suggestion, "properties", EmptyDict), Get(existing, "properties", EmptyDict))

\* out["properties"] after out.setdefault("properties", {}) and .update(...)
MergedProperties(existing, suggestion) == Update(Get(existing, "properties", EmptyDict), Get(suggestion, "properties", EmptyDict))

\* The dict _merge_extend(existing, suggestion) returns.
_merge_extend(existing, suggestion) ==
    LET o1 == Put(existing, "properties", MergedProperties(existing, suggestion))
        o2 == Put(o1, "required", _uniq(Get(o1, "required", <<>>) \o Get(suggestion, "required", <<>>)))
        o3 == Put(o2, "primaryKey", _uniq(Get(o2, "primaryKey", <<>>) \o Get(suggestion, "primaryKey", <<>>)))
        o4 == IF Has(suggestion, "additionalProperties") THEN Put(o3, "additionalProperties", suggestion.additionalProperties) ELSE o3
    IN IF Falsy(Get(o4, "title", <<>>)) /\ ~Falsy(Get(suggestion, "title", <<>>)) THEN Put(o4, "title", suggestion.title) ELSE o4

\* The dict existing after the call: out = dict(existing) is a shallow copy, so
\* out["properties"] is existing["properties"] itself when existing has the key,
\* and update() writes into it; every other key of existing is left alone.
ExistingAfterMerge(existing, suggestion) ==
    IF Has(existing, "properties") THEN Put(existing, "properties", MergedProperties(existing, suggestion)) ELSE existing

\* ------------------------------------------------------------------------
\* _call_ai
\* ------------------------------------------------------------------------
\* What the external generator does with the request, by the first thing that
\* goes wrong (or nothing: "content_json").
ResponseKinds == {"network_error", "timeout", "http_error", "malformed_body", "empty_choices", "content_not_json", "content_json"}

Raised == [raised |-> TRUE]
Returned(v) == [raised |-> FALSE, value |-> v]

\* Building "existing_shapes" calls v.get on every value of
\* schema_ctx["definitions"]: a value that is no dict raises.
ContextRaises(ctx) == \E k \in DOMAIN Get(ctx, "definitions", EmptyDict) : ~IsDict(ctx.definitions[k])

\* _call_ai: what it returns, or that it raises.  resp is what the external
\* generator answers; resp.parsed is json.loads(content).
_call_ai(configured, ctx, resp) ==
    IF ~configured THEN Returned(None)
    ELSE IF ContextRaises(ctx) THEN Raised
    \* await client.post(...): httpx raises
    ELSE IF resp.kind \in {"network_error", "timeout"} THEN Raised
    \* r.raise_for_status()
    ELSE IF resp.kind = "http_error" THEN Raised
    \* r.json()
    ELSE IF resp.kind = "malformed_body" THEN Raised
    \* data.get("choices", [{}])[0] of an empty list
    ELSE IF resp.kind = "empty_choices" THEN Raised
    \* json.loads(content) raises inside the try
    ELSE IF resp.kind = "content_not_json" THEN Returned(None)
    ELSE IF IsDict(resp.parsed) /\ Has(resp.parsed, "definition") /\ Has(resp.parsed, "definition_key") THEN Returned(resp.parsed)
    ELSE Returned(None)

\* ------------------------------------------------------------------------
\* State
\* ------------------------------------------------------------------------
VARIABLES
    \* suggest_definition: the request
    configured,     \* AI_API_BASE and AI_API_KEY are both set
    instruction,
    mode,
    target,
    schema_ctx,
    \* suggest_definition: the run
    pc,             \* the statement the coroutine is at, "done" or "raised"
    response,       \* what the external generator answered
    ai,             \* the local ai
    \* a call of one function on its own: _coerce_draft07 or _merge_extend
    call,           \* how far the call has got
    arg,            \* the first argument
    arg2,           \* the second argument
    ret,            \* what the call returned
    ret2            \* _coerce_draft07 of what it returned

vars == <<configured, instruction, mode, target, schema_ctx, pc, response, ai, call, arg, arg2, ret, ret2>>
reqVars == <<configured, instruction, mode, target, schema_ctx, pc, response, ai>>
callVars == <<call, arg, arg2, ret, ret2>>

\* ------------------------------------------------------------------------
\* Bounds and the inputs drawn within them
\* ------------------------------------------------------------------------
\* Clauses in an instruction.
MaxClauses == 2
\* Properties in a fragment handed to _coerce_draft07 on its own.
MaxProps == 2
\* Entries in a required or primaryKey list handed to _merge_extend on its own.
MaxListLen == 2

nUsers == <<"u", "s", "e", "r", "s">>
nGhost == <<"g", "h", "o", "s", "t">>
nName == <<"n", "a", "m", "e">>
nAge == <<"a", "g", "e">>
nUser == <<"U", "s", "e", "r">>
nProjects == <<"p", "r", "o", "j", "e", "c", "t", "s">>

Sep == <<";", " ">>
Clauses == <<
    <<"s", "t", "a", "t", "u", "s", " ", "e", "n", "u", "m", ":", " ", "a", ",", " ", "b">>,
    <<"F", "K", ":", " ", "s", "t", "a", "t", "u", "s", " ", "→", " ", "u", "s", "e", "r", "s", ".", "i", "d">>,
    <<"F", "K", ":", " ", "u", "s", "e", "r", "_", "i", "d", " ", "-", ">", " ", "u", "s", "e", "r", "s", ".", "i", "d">>,
    <<"f", "k", ":", " ", "o", "w", "n", "e", "r", " ", "→", " ", "t", "e", "a", "m", ".", "i", "d">>,
    <<"s", "t", "a", "t", "u", "s", " ", "(", "I", "n", "t", "e", "g", "e", "r", ")", ",", " ", "a", "g", "e", " ", "(", "n", "u", "m", "b", "e", "r", ")">>,
    <<"r", "o", "l", "e", "s", ":", " ", "u", "s", "e", "r", ",", " ", "a", "d", "m", "i", "n">>,
    <<"C", "r", "e", "a", "t", "e", " ", "p", "r", "o", "j", "e", "c", "t", "s", " ", "w", "i", "t", "h", " ", "e", "m", "a", "i", "l", "\n", "c", "r", "e", "a", "t", "e", "d", "_", "a", "t">> >>

\* The clauses cs[k..], joined with "; ".
RECURSIVE JoinClauses(_, _)
JoinClauses(cs, k) == IF k > Len(cs) THEN <<>> ELSE Clauses[cs[k]] \o (IF k < Len(cs) THEN Sep ELSE <<>>) \o JoinClauses(cs, k + 1)

Instructions == {JoinClauses(cs, 1) : cs \in UNION {[1..n -> DOMAIN Clauses] : n \in 0..MaxClauses}}

Modes == {"new_definition", "extend_entity"}
Targets == {PyNone, nUsers, nGhost}

\* key :> value, when present
Opt(present, k, v) == IF present THEN k :> v ELSE EmptyDict

\* Entities of the schema context; one lacks type and additionalProperties,
\* one lacks properties, one is not a dict.
Entities == {
    [type |-> "object", title |-> nUser, properties |-> (nName :> [type |-> "string"]), required |-> <<nName>>, primaryKey |-> <<nId>>, additionalProperties |-> TRUE],
    [properties |-> (nName :> [type |-> "string"]), additionalProperties |-> TRUE],
    [type |-> "object", required |-> <<nName, nName>>, additionalProperties |-> FALSE],
    NonDict }

\* schema_ctx: without "definitions", or with the entity users
Contexts == {EmptyDict} \cup {[definitions |-> (nUsers :> e)] : e \in Entities}

\* What the external generator's content parses to.
Candidates == {
    \* well-formed
    [mode |-> "new_definition", definition_key |-> nProjects,
     definition |-> [type |-> "object", title |-> nUser, properties |-> (nId :> [type |-> "string", format |-> "uuid"]) @@ (nName :> [type |-> "string", uniqueItems |-> TRUE]),
                     required |-> <<nId>>, primaryKey |-> <<nId>>, additionalProperties |-> FALSE]],
    \* no structural key but properties; a type that is no primitive, a spec without a type
    [mode |-> "extend_entity", definition_key |-> nUsers,
     definition |-> [properties |-> (nAge :> [type |-> "binary"]) @@ (nName :> [format |-> "email"])]],
    \* additionalProperties set to true; an array without items
    [mode |-> "extend_entity", definition_key |-> nUsers,
     definition |-> [properties |-> (nAge :> [type |-> "array"]), required |-> <<nAge>>, additionalProperties |-> TRUE]],
    \* an empty definition
    [mode |-> "new_definition", definition_key |-> nProjects, definition |-> EmptyDict],
    \* required keys missing
    [mode |-> "new_definition", definition |-> [type |-> "object"]],
    [mode |-> "new_definition", definition_key |-> nProjects],
    \* not an object
    NonDict }

NoResponse == [kind |-> "none"]
Responses == {[kind |-> k] : k \in ResponseKinds \ {"content_json"}} \cup {[kind |-> "content_json", parsed |-> c] : c \in Candidates}

\* ------------------------------------------------------------------------
\* suggest_definition
\* ------------------------------------------------------------------------
NoCall == /\ call = "none"
          /\ arg = EmptyDict
          /\ arg2 = EmptyDict
          /\ ret = EmptyDict
          /\ ret2 = EmptyDict

Init == /\ configured \in BOOLEAN
        /\ instruction \in Instructions
        /\ mode \in Modes
        /\ target \in Targets
        /\ schema_ctx \in Contexts
        /\ pc = "call_ai"
        /\ response = NoResponse
        /\ ai = None
        /\ NoCall

\* ai = await _call_ai(...)
CallAI == /\ pc = "call_ai"
          /\ \E resp \in (IF configured /\ ~ContextRaises(schema_ctx) THEN Responses ELSE {NoResponse}) :
                /\ response' = resp
                /\ LET r == _call_ai(configured, schema_ctx, resp)
                   IN IF r.raised
                      THEN pc' = "raised" /\ ai' = ai
                      ELSE pc' = "fallback" /\ ai' = r.value
          /\ UNCHANGED <<configured, instruction, mode, target, schema_ctx, callVars>>

\* if not ai: ai = _rule_based_from_text(instruction, mode, target)
Fallback == /\ pc = "fallback"
            /\ ai' = IF ~IsDict(ai) THEN RuleBasedFromText(instruction, mode, target) ELSE ai
            /\ pc' = "coerce"
            /\ UNCHANGED <<configured, instruction, mode, target, schema_ctx, response, callVars>>

\* ai["definition"] = _coerce_draft07(ai.get("definition") or {})
Coerce == /\ pc = "coerce"
          /\ ai' = Put(ai, "definition", CoerceDraft07(Get(ai, "definition", EmptyDict)))
          /\ pc' = "merge"
          /\ UNCHANGED <<configured, instruction, mode, target, schema_ctx, response, callVars>>

\* schema_ctx.get("definitions", {}).get(target)
TargetEntity(ctx, tgt) == Get(Get(ctx, "definitions", EmptyDict), tgt, None)

\* mode == "extend_entity" and target and isinstance(..., dict)
Extending(m, tgt, ctx) == m = "extend_entity" /\ ~Falsy(tgt) /\ IsDict(TargetEntity(ctx, tgt))

\* if ...: existing = schema_ctx["definitions"][target];
\*         ai["definition"] = _merge_extend(existing, ai["definition"])
\* return ai
Merge == /\ pc = "merge"
         /\ IF Extending(mode, target, schema_ctx)
            THEN LET existing == schema_ctx.definitions[target]
                 IN /\ ai' = Put(ai, "definition", _merge_extend(existing, ai.definition))
                    /\ schema_ctx' = Put(schema_ctx, "definitions", Put(schema_ctx.definitions, target, ExistingAfterMerge(existing, ai.definition)))
            ELSE UNCHANGED <<ai, schema_ctx>>
         /\ pc' = "done"
         /\ UNCHANGED <<configured, instruction, mode, target, response, callVars>>

Next == CallAI \/ Fallback \/ Coerce \/ Merge

Spec == Init /\ [][Next]_vars

\* ------------------------------------------------------------------------
\* _coerce_draft07 on its own
\* ------------------------------------------------------------------------
NoRequest == /\ configured = FALSE
             /\ instruction = <<>>
             /\ mode = "new_definition"
             /\ target = PyNone
             /\ schema_ctx = EmptyDict
             /\ pc = "none"
             /\ response = NoResponse
             /\ ai = None

\* f1, f2, ...
FieldName(i) == <<"f", DigitSeq[i + 1]>>
FieldNames == {FieldName(i) : i \in 1..MaxProps}

AbsentType == "absent"
AbsentItems == [absent |-> TRUE]
MkSpec(ty, items, uq) == Opt(ty # AbsentType, "type", ty) @@ Opt(items # AbsentItems, "items", items) @@ Opt(uq, "uniqueItems", TRUE)

ItemsChoices == {AbsentItems, NonDict, EmptyDict, [type |-> "integer"], [type |-> "tuple", enum |-> <<nName>>]}
\* Property specs: every type with and without uniqueItems, an array with every
\* kind of items, a type that is no primitive with items, a value that is no dict.
PropSpecs ==
    {MkSpec(ty, AbsentItems, uq) : ty \in {AbsentType, NoType, "string", "integer", "binary"}, uq \in BOOLEAN}
    \cup {MkSpec("array", it, uq) : it \in ItemsChoices, uq \in BOOLEAN}
    \cup {MkSpec("list", [type |-> "tuple"], FALSE), NonDict}

PropMaps == UNION {[D -> PropSpecs] : D \in SUBSET FieldNames}

\* The structural keys a fragment comes with.
Shapes == {
    EmptyDict,
    [additionalProperties |-> TRUE, required |-> <<FieldName(1)>>],
    [type |-> "object", title |-> nUser, required |-> <<>>, primaryKey |-> <<FieldName(1)>>, additionalProperties |-> FALSE] }

Fragments == Shapes \cup {Put(s, "properties", pm) : s \in Shapes, pm \in PropMaps}

InitCoerce == /\ NoRequest
              /\ call = "coerce"
              /\ arg \in Fragments
              /\ arg2 = EmptyDict
              /\ ret = EmptyDict
              /\ ret2 = EmptyDict

\* ret = _coerce_draft07(arg)
CoerceOnce == /\ call = "coerce"
              /\ ret' = CoerceDraft07(arg)
              /\ call' = "coerced"
              /\ UNCHANGED <<arg, arg2, ret2, reqVars>>

\* ret2 = _coerce_draft07(ret)
CoerceTwice == /\ call = "coerced"
               /\ ret2' = CoerceDraft07(ret)
               /\ call' = "coerced_twice"
               /\ UNCHANGED <<arg, arg2, ret, reqVars>>

NextCoerce == CoerceOnce \/ CoerceTwice

SpecCoerce == InitCoerce /\ [][NextCoerce]_vars

\* ------------------------------------------------------------------------
\* _merge_extend on its own
\* ------------------------------------------------------------------------
\* Entries of a required or primaryKey list; "" is falsy.
ListEntries == {nName, nAge, <<>>}
Lists == UNION {[1..n -> ListEntries] : n \in 0..MaxListLen}
AbsentList == <<PyNone>>
MkFrag(props, req, pk) == Opt(props # AbsentItems, "properties", props) @@ Opt(req # AbsentList, "required", req) @@ Opt(pk # AbsentList, "primaryKey", pk)

ExistingFrags == {MkFrag(props, req, pk) :
                    props \in {AbsentItems, EmptyDict, (nName :> [type |-> "string"]), (nName :> [type |-> "string"]) @@ (nAge :> [type |-> "number"])},
                    req \in Lists \cup {AbsentList},
                    pk \in {AbsentList, <<nId, <<>>, nId, nName>>}}

IncomingFrags == {MkFrag(props, req, pk) :
                    props \in {AbsentItems, (nAge :> [type |-> "integer"]), (nName :> [type |-> "integer"]) @@ (nAge :> [type |-> "integer"])},
                    req \in Lists \cup {AbsentList},
                    pk \in {AbsentList, <<nName, nId>>}}

InitMerge == /\ NoRequest
             /\ call = "merge"
             /\ arg \in ExistingFrags
             /\ arg2 \in IncomingFrags
             /\ ret = EmptyDict
             /\ ret2 = EmptyDict

\* ret = _merge_extend(arg, arg2)
MergeCall == /\ call = "merge"
             /\ ret' = _merge_extend(arg, arg2)
             /\ call' = "merged"
             /\ UNCHANGED <<arg, arg2, ret2, reqVars>>

NextMerge == MergeCall

SpecMerge == InitMerge /\ [][NextMerge]_vars

\* ------------------------------------------------------------------------
\* Properties
\* ------------------------------------------------------------------------
\* What _call_ai gave suggest_definition.
GeneratorResult == _call_ai(configured, schema_ctx, response)
\* The run took the rule-based path: _call_ai returned None.
UsedFallback == pc \in {"coerce", "merge", "done"} /\ ~IsDict(GeneratorResult.value)
\* The candidate fragment before normalization.
CandidateDefinition == IF UsedFallback THEN RuleBasedFromText(instruction, mode, target).definition ELSE Get(response.parsed, "definition", EmptyDict)

StructuralKeys == {"type", "properties", "required", "primaryKey", "additionalProperties"}

\* C1: the definition suggest_definition returns always has the five structural
\* keys, with type = "object", in both modes and on both paths.
C1_ReturnedDefinitionNormalized ==
    pc = "done" => StructuralKeys \subseteq DOMAIN ai.definition /\ ai.definition.type = "object"

SixPrimitives == {"string", "number", "integer", "boolean", "array", "object"}
ArgProperties == Get(arg, "properties", EmptyDict)

\* C2, as stated: after _coerce_draft07 every property spec (that is a dict) has
\* a type, and it is one of the six primitives.
C2_EveryTypeIsPrimitive ==
    call = "coerced" => \A f \in DOMAIN ret.properties :
        IsDict(ret.properties[f]) => Has(ret.properties[f], "type") /\ ret.properties[f].type \in SixPrimitives

\* C2, amended: after _coerce_draft07 a property spec (that is a dict) has a type
\* exactly when it had one; a type that is one of the six primitives, or null, is
\* unchanged, and any other type is forced to string.
C2_TypeIsPrimitiveOrAbsent ==
    call = "coerced" =>
        /\ DOMAIN ret.properties = DOMAIN ArgProperties
        /\ \A f \in DOMAIN ArgProperties :
            LET before == ArgProperties[f]
                after == ret.properties[f]
            IN IsDict(before) =>
                /\ IsDict(after)
                /\ Has(after, "type") = Has(before, "type")
                /\ Has(before, "type") =>
                    after.type = IF before.type \in SixPrimitives \cup {NoType} THEN before.type ELSE "string"

\* C2 witness: a normalized fragment in which one spec's unknown type was forced
\* to string and another spec is still without a type.
C2_Witness ==
    /\ call = "coerced"
    /\ \E f, g \in DOMAIN ArgProperties :
        /\ IsDict(ArgProperties[f]) /\ IsDict(ArgProperties[g])
        /\ Get(ArgProperties[f], "type", NoType) = "binary"
        /\ ret.properties[f].type = "string"
        /\ ~Has(ArgProperties[g], "type")
        /\ ~Has(ret.properties[g], "type")

\* C3: no step of suggest_definition changes the schema context.
C3_SchemaCtxNeverMutated == [][schema_ctx' = schema_ctx]_vars

FirstIndex(c, x) == CHOOSE i \in DOMAIN c : c[i] = x /\ \A j \in 1..(i - 1) : c[j] # x
\* r is c with its empty entries dropped and its duplicates removed, the first
\* occurrence kept.
IsOrderedUnion(r, c) ==
    /\ \A i \in DOMAIN r : r[i] # <<>> /\ \E j \in DOMAIN c : c[j] = r[i]
    /\ \A j \in DOMAIN c : c[j] # <<>> => \E i \in DOMAIN r : r[i] = c[j]
    /\ \A i, j \in DOMAIN r : i < j => r[i] # r[j] /\ FirstIndex(c, r[i]) < FirstIndex(c, r[j])

C5_AdditionalPropertiesPreserved ==
    pc = "done" /\ Extending(mode, target, schema_ctx) =>
        LET existing == TargetEntity(schema_ctx, target)
        IN IF Has(CandidateDefinition, "additionalProperties")
           THEN ai.definition.additionalProperties = CandidateDefinition.additionalProperties
           ELSE Has(existing, "additionalProperties") =>
                    Has(ai.definition, "additionalProperties") /\ ai.definition.additionalProperties = existing.additionalProperties

\* C6: _coerce_draft07 is idempotent.
C6_CoerceIdempotent == call = "coerced_twice" => ret2 = ret

\* C6 witness: a second normalization of a fragment the first one changed: a
\* property lost its uniqueItems or had its type or items repaired.
C6_Witness ==
    /\ call = "coerced_twice"
    /\ \E f, g \in DOMAIN ArgProperties :
        /\ IsDict(ArgProperties[f]) /\ IsDict(ArgProperties[g])
        /\ Has(ArgProperties[f], "uniqueItems") /\ ~Has(ret.properties[f], "uniqueItems")
        /\ Get(ArgProperties[f], "type", NoType) = "binary"
        /\ Get(ArgProperties[g], "type", NoType) = "array"
        /\ ArgProperties[g] # ret.properties[g]

\* The external generator was called and gave nothing usable.
GeneratorFailed ==
    /\ configured
    /\ response # NoResponse
    /\ \/ response.kind # "content_json"
       \/ ~IsDict(response.parsed)
       \/ ~Has(response.parsed, "definition")
       \/ ~Has(response.parsed, "definition_key")

\* C7: a failure of the external generator is never propagated: suggest_definition
\* does not raise and goes on with the rule-based result.
C7_GeneratorFailureDiscarded ==
    GeneratorFailed => pc # "raised" /\ (pc = "coerce" => ai = RuleBasedFromText(instruction, mode, target))

\* The fields pass k set: those it added or whose spec it changed.
SetByPass(text, m, k) ==
    LET before == PropsAfterPass(text, m, k - 1)
        after == PropsAfterPass(text, m, k)
    IN {f \in DOMAIN after : f \notin DOMAIN before \/ after[f] # before[f]}

\* C8: a field a pass has set keeps that spec through the later passes.
C8_EarlierPassWins ==
    pc = "coerce" /\ UsedFallback =>
        \A k \in 1..5 : \A f \in SetByPass(instruction, mode, k) :
            ai.definition.properties[f] = PropsAfterPass(instruction, mode, k)[f]

\* The arrow of a foreign-key declaration at i: "->" or "→"; 0 when there is none.
ArrowLen(t, i) == IF LitAt(t, i, <<"-", ">">>) THEN 2 ELSE IF LitAt(t, i, <<"→">>) THEN 1 ELSE 0
\* The declaration FK: <field> <arrow> <table>.<column> that starts at i, if any.
DeclaredFKAt(t, i) ==
    LET b == RunEnd(t, i + 3, Space)
        c == RunEnd(t, b, Word)
        d == RunEnd(t, c, Space)
        e == RunEnd(t, d + ArrowLen(t, d), Space)
        f == RunEnd(t, e, Word)
        g == RunEnd(t, f + 1, Word)
    IN IF LitAtCI(t, i, <<"f", "k", ":">>) /\ c > b /\ ArrowLen(t, d) > 0 /\ f > e /\ CharAt(t, f, {"."}) /\ g > f + 1
       THEN {[field |-> Sub(t, b, c), table |-> Sub(t, e, f), column |-> Sub(t, f + 1, g)]}
       ELSE {}
DeclaredFKs(t) == UNION {DeclaredFKAt(t, i) : i \in 1..Len(t)}
Singular(w) == IF w # <<>> /\ w[Len(w)] = "s" THEN SubSeq(w, 1, Len(w) - 1) ELSE w

\* C9: every declaration FK: <field> -> <table>.<column>, the arrow "->" or "→"
\* and the keyword in any case, gives <field> the foreign-key spec.
C9_ForeignKeyExtracted ==
    pc = "coerce" /\ UsedFallback =>
        \A d \in DeclaredFKs(instruction) :
            /\ Has(ai.definition.properties, d.field)
            /\ LET spec == ai.definition.properties[d.field]
               IN /\ {"type", "format", "refTable", "refColumn", "relationshipName", "ref"} \subseteq DOMAIN spec
                  /\ spec.type = "string"
                  /\ spec.format = "uuid"
                  /\ spec.refTable = d.table
                  /\ spec.refColumn = d.column
                  /\ spec.relationshipName = Singular(d.table)

\* The entity nouns of the vocabulary.
Vocabulary == {
    <<"u", "s", "e", "r">>,
    <<"r", "o", "l", "e">>,
    <<"s", "e", "s", "s", "i", "o", "n">>,
    <<"p", "r", "o", "j", "e", "c", "t">>,
    <<"i", "n", "v", "o", "i", "c", "e">>,
    <<"o", "r", "d", "e", "r">>,
    <<"p", "r", "o", "d", "u", "c", "t">> }
NounsIn(t) == {n \in Vocabulary : Contains(LowerStr(t), n)}
Pluralize(n) == IF n # <<>> /\ n[Len(n)] = "s" THEN n ELSE n \o <<"s">>

\* C10: on the rule-based path a new definition's key is the plural of a
\* vocabulary noun found in the instruction, and "entity" only when there is none.
C10_KeyInferredFromText ==
    pc = "done" /\ UsedFallback /\ mode = "new_definition" =>
        IF NounsIn(instruction) = {}
        THEN ai.definition_key = nEntity
        ELSE ai.definition_key \in {Pluralize(n) : n \in NounsIn(instruction)}

====
